---- MODULE Spec2Model ----
(***************************************************************************)
(* A model of the collaboration extension: the host session's lifecycle    *)
(* (HostSession), the presence component (CursorSync) with its debounce    *)
(* timer, the save delegation (DocumentSync) and the text operations of    *)
(* the OT type the document bridge is built on.                            *)
(***************************************************************************)
EXTENDS Integers, Sequences, FiniteSets, TLC

VARIABLES
  serverRunning,   \* PairProgServer.isRunning
  sharedbServer,   \* HostSession.sharedbServer is not null
  broadcaster,     \* HostSession.broadcaster is not null (the beacon is running)
  isStopping,      \* HostSession.isStopping
  statusBar,       \* what the StatusBar was last told
  clientUsername,  \* HostSession.clientUsername
  sendFnSet,       \* HostSession._sendFn is defined
  sharedbBridge,   \* HostSession.sharedbBridge: 0 is null, g is the object setupSync call g made
  documentSync,    \* HostSession.documentSync, likewise
  cursorSync,      \* HostSession.cursorSync, likewise
  fileOpsSync,     \* HostSession.fileOpsSync, likewise
  gen,             \* the number of setupSync calls so far
  objs,            \* per setupSync call: the state of the bridge, DocumentSync and FileOpsSync it made
  cs,              \* per setupSync call: the CursorSync object it made
  hs,              \* per setupSync call: where the onClientConnected call that made it stands
  replicas,        \* per bridge: the paths whose ShareDB document it has materialized
  peer,            \* the transport holds a peer connection
  wsOpen,          \* vscode.workspace.workspaceFolders?.[0] is defined
  textDocuments,   \* vscode.workspace.textDocuments
  activeEditor,    \* vscode.window.activeTextEditor (the document it shows)
  sel,             \* per editor: its current selections
  sinceChange,     \* the time since the last selection change, in ms (up to DEBOUNCE_MS)
  lastEditor,      \* the editor of the last selection change
  burst,           \* the number of selection changes up to the last, each less than a window after the one before
  sent,            \* the messages the last step handed to server.send, in order
  input,           \* the Hello or the message the last step handled, NoInput if none
  warned,          \* the last step showed a warning message
  threw,           \* the handler the last step ran threw (an async handler: its promise rejected)
  info,            \* the information message the last step showed, "none" if none
  fired,           \* the URIs of the file-decoration change events the last step fired, in order
  ignoredPatterns, \* the configuration value pairprog.ignoredPatterns
  shareDocs,       \* per path: the ShareDB document of the host's ShareDB server, once created
  docText,         \* per document: its text in the host's editor
  chatPrompt,      \* a sendMessage() call awaits its input box
  whiteboard,      \* HostSession.whiteboard holds a panel
  \* two replicas of one document and a pair of concurrent operations
  otBase,          \* the text both replicas start from
  otA,             \* the host's operation against otBase
  otB,             \* the client's operation against otBase
  hostDoc,         \* the host's replica
  clientDoc,       \* the client's replica
  hostPc,          \* "idle", "edited" (otA applied), "merged" (the client's operation applied too)
  clientPc,        \* likewise for the client
  \* save delegation: the DocumentSync of a host and of a client, and the wire
  clientWsOpen,    \* the client has a workspace folder open
  clientDirty,     \* the documents with unsaved edits in the client's editor
  clientDiskWrites, \* per document, how often the client's editor wrote it to the client's disk
  hostDiskWrites,  \* per path, how often the host wrote the file to its disk
  toHost,          \* the messages on the wire to the host, in order
  toClient,        \* the messages on the wire to the client, in order
  hostSaves,       \* the handleFileSaveRequest calls in progress on the host
  requests,        \* per path, how many FileSaveRequest the client sent
  fileSaved,       \* per path, how many FileSaved the host sent
  reverts,         \* per path, how often the client reverted the file
  \* the extension: its two module variables and the sessions its commands made
  hostSession,     \* extension.ts hostSession: the HostSession it refers to, 0 for null
  clientSession,   \* extension.ts clientSession, likewise
  hostSessions,    \* per HostSession object: "none" (not made), "idle", "running" (isActive), "stopped"
  clientSessions,  \* per ClientSession object: "none", "idle", "connected" (isActive), "closed"
  starting,        \* the HostSession objects whose start() a startSession command awaits
  connecting,      \* the ClientSession objects whose connect() a joinSession command awaits
  prompts          \* the number of joinSession commands that await the address prompt

\* The fields of the HostSession and the objects it made
sessionVars == <<serverRunning, sharedbServer, broadcaster, isStopping, statusBar,
                 clientUsername, sendFnSet>>
syncVars == <<sharedbBridge, documentSync, cursorSync, fileOpsSync, gen, objs>>
\* The editor the extension runs in
editorVars == <<wsOpen, textDocuments, activeEditor, sel>>

\* What the selection changes so far were
historyVars == <<lastEditor, burst>>

\* What the last step handled
inputVars == <<input, warned, threw, info, fired>>

hostVars == <<sessionVars, syncVars, cs, hs, replicas, peer, editorVars, sinceChange,
              historyVars, sent, inputVars>>

otVars == <<otBase, otA, otB, hostDoc, clientDoc, hostPc, clientPc>>

saveVars == <<clientWsOpen, clientDirty, clientDiskWrites, hostDiskWrites, toHost,
              toClient, hostSaves, requests, fileSaved, reverts>>

\* The documents of the ShareDB server and the text they are seeded from
replicaVars == <<shareDocs, docText>>

\* The chat prompt and the whiteboard of the HostSession
uiVars == <<chatPrompt, whiteboard>>

\* The module variables of extension.ts and the sessions of its commands
extVars == <<hostSession, clientSession, hostSessions, clientSessions, starting,
             connecting, prompts>>

vars == <<hostVars, otVars, saveVars, ignoredPatterns, replicaVars, uiVars, extVars>>

\* What the steps of the host session leave alone
notHost == <<otVars, saveVars, ignoredPatterns, replicaVars, uiVars, extVars>>
\* What the steps of the two replicas leave alone
notOt == <<hostVars, saveVars, ignoredPatterns, replicaVars, uiVars, extVars>>
\* What the steps of the save delegation leave alone
notSave == <<hostVars, otVars, ignoredPatterns, replicaVars, uiVars, extVars>>

----------------------------------------------------------------------------
(* Bounds of the exploration *)

MaxGen == 2
\* The session objects of a kind the extension's commands make
MaxSessions == 2
\* The address prompts open at once
MaxPrompts == 1
MaxSel == 1
MaxOpenDocs == 2
MaxBurst == 2
TickMs == 25

Gens == 1..MaxGen

----------------------------------------------------------------------------
(* Paths: a path is a sequence of characters *)

Min(a, b) == IF a <= b THEN a ELSE b

StartsWith(s, p) == Len(s) >= Len(p) /\ SubSeq(s, 1, Len(p)) = p

\* String.prototype.slice(n) with n >= 0
Slice(s, n) == IF n >= Len(s) THEN <<>> ELSE SubSeq(s, n + 1, Len(s))

\* .replace(/\\/g, "/")
ReplaceBackslashes(s) == [i \in 1..Len(s) |-> IF s[i] = "\\" THEN "/" ELSE s[i]]

RootPath == <<"/", "w">>

\* The documents of the editor: "a" lies in the workspace root, "s" lies in a
\* sibling directory whose path starts with the root path, "x" lies elsewhere on
\* the disk, "o" is an output channel (not a file).
Docs == {"a", "s", "x", "o"}
NoDoc == "none"

DocScheme(d) == IF d = "o" THEN "output" ELSE "file"

DocFsPath(d) ==
  CASE d = "a" -> <<"/", "w", "/", "a">>
    [] d = "s" -> <<"/", "w", "2", "/", "b">>
    [] d = "x" -> <<"/", "x", "/", "c">>
    [] OTHER   -> <<"/", "o">>

RelativePath(fsPath) == ReplaceBackslashes(Slice(fsPath, Len(RootPath) + 1))

\* toAbsoluteUri(relativePath): vscode.Uri.joinPath(wsFolder.uri, relativePath)
ToAbsolutePath(filePath) ==
  IF filePath # <<>> /\ filePath[1] = "/" THEN RootPath \o filePath
  ELSE RootPath \o <<"/">> \o filePath

----------------------------------------------------------------------------
(* Glob patterns: minimatch(path, pattern, {dot: true}) for patterns made of
   characters, "?", "*" and whole "**" segments *)

\* s.split("/")
RECURSIVE Split(_)
Split(s) ==
  IF \A i \in 1..Len(s) : s[i] # "/" THEN <<s>>
  ELSE LET k == CHOOSE i \in 1..Len(s) : s[i] = "/" /\ \A j \in 1..(i - 1) : s[j] # "/"
       IN  <<SubSeq(s, 1, k - 1)>> \o Split(Slice(s, k))

\* Within a segment: "?" is one character and "*" any run of characters
RECURSIVE MatchChars(_, _)
MatchChars(name, pat) ==
  IF pat = <<>> THEN name = <<>>
  ELSE IF Head(pat) = "*"
    THEN MatchChars(name, Tail(pat)) \/ (name # <<>> /\ MatchChars(Tail(name), pat))
  ELSE IF name = <<>> THEN FALSE
  ELSE (Head(pat) = "?" \/ Head(pat) = Head(name)) /\ MatchChars(Tail(name), Tail(pat))

HasMagic(pat) == \E i \in 1..Len(pat) : pat[i] \in {"*", "?"}

\* One segment of the path against one segment of the pattern: a segment with
\* "*" or "?" matches no empty name and neither "." nor ".."; with dot: true it
\* matches names that start with "."
MatchSegment(name, pat) ==
  IF HasMagic(pat)
    THEN name # <<>> /\ name \notin {<<".">>, <<".", ".">>} /\ MatchChars(name, pat)
    ELSE name = pat

GlobStar == <<"*", "*">>

Dots == {<<".">>, <<".", ".">>}

\* The segments of the path against those of the pattern: "**" stands for any
\* number of segments, none included, when segments follow it in the pattern, and
\* for all the segments that are left when it ends the pattern
RECURSIVE MatchOne(_, _)
MatchOne(file, pattern) ==
  IF pattern = <<>> THEN file = <<>> \/ file = <<<<>>>>
  ELSE IF file = <<>> THEN FALSE
  ELSE IF Head(pattern) = GlobStar
    THEN IF Tail(pattern) = <<>>
           THEN \A i \in 1..Len(file) : file[i] \notin Dots
           ELSE \/ MatchOne(file, Tail(pattern))
                \/ Head(file) \notin Dots /\ MatchOne(Tail(file), pattern)
  ELSE MatchSegment(Head(file), Head(pattern)) /\ MatchOne(Tail(file), Tail(pattern))

Minimatch(path, pattern) == MatchOne(Split(path), Split(pattern))

\* A variant that asks for every pattern to match
IsIgnoredByEveryPattern(relativePath, patterns) ==
  \A i \in 1..Len(patterns) : Minimatch(relativePath, patterns[i])

\* isIgnoredByPatterns(relativePath, patterns)
IsIgnoredByPatterns(relativePath, patterns) ==
  \E i \in 1..Len(patterns) : Minimatch(relativePath, patterns[i])

----------------------------------------------------------------------------
(* Messages *)

NoPath == <<>>

Msg(type, filePath, openFiles, cursors, by) ==
  [type |-> type, filePath |-> filePath, openFiles |-> openFiles,
   cursors |-> cursors, by |-> by]

ErrorMsg == Msg("Error", NoPath, <<>>, 0, 0)
WelcomeMsg(openFiles) == Msg("Welcome", NoPath, openFiles, 0, 0)
\* by: the CursorSync object that sent it (not on the wire)
\* An inbound Hello or message: its type and the fields of its payload; a field
\* the payload lacks is "none", NoPath or NoCursors
NoCursors == -1

Inbound(type, username, workspaceFolder, passphraseHash, filePath, newPath, cursors) ==
  [type |-> type, username |-> username, workspaceFolder |-> workspaceFolder,
   passphraseHash |-> passphraseHash, filePath |-> filePath, newPath |-> newPath,
   cursors |-> cursors]

NoInput == Inbound("none", "none", "none", "none", NoPath, NoPath, NoCursors)

HelloMsg(username, workspaceFolder, passphraseHash) ==
  Inbound("Hello", username, workspaceFolder, passphraseHash, NoPath, NoPath, NoCursors)

\* The step handles no input, shows no message, throws nothing and fires no
\* file-decoration change event
Quiet ==
  /\ input' = NoInput
  /\ warned' = FALSE
  /\ threw' = FALSE
  /\ info' = "none"
  /\ fired' = <<>>

CursorUpdateMsg(filePath, cursors, by) == Msg("CursorUpdate", filePath, <<>>, cursors, by)

ChatMsg == Msg("ChatMessage", NoPath, <<>>, 0, 0)

\* An event or command without a payload
EventIn(type) == Inbound(type, "none", "none", "none", NoPath, NoPath, NoCursors)

----------------------------------------------------------------------------
(* CursorSync *)

DEBOUNCE_MS == 50

\* A scheduled timeout of onLocalSelectionChange: the editor its callback
\* captured and the time left until it fires. NoTimer: none is scheduled.
NoTimer == [editor |-> NoDoc, left |-> 0]

Timer(editor, left) == [editor |-> editor, left |-> left]

\* state: "none" before the object exists, "active" from activate() on, then "disposed"
\* debounceTimer: the scheduled timeout this.debounceTimer refers to
\* others: the scheduled timeouts of this object nothing refers to any more
\* remoteCursors: the stored CursorUpdate payload, NoInput for null
\* remoteFileUri, previousRemoteFileUri: absolute paths, NoPath for null
NoCursorSync ==
  [state |-> "none", debounceTimer |-> NoTimer, others |-> {},
   remoteCursors |-> NoInput, remoteFileUri |-> NoPath, previousRemoteFileUri |-> NoPath]

\* new CursorSync(...) followed by activate(): the selection listener is registered
NewCursorSync == [NoCursorSync EXCEPT !.state = "active"]

\* A variant that schedules the new timeout without clearing the pending one
OnLocalSelectionChangeNoClear(c, editor) ==
  [c EXCEPT !.debounceTimer = Timer(editor, DEBOUNCE_MS),
            !.others = IF c.debounceTimer # NoTimer THEN @ \cup {c.debounceTimer} ELSE @]

\* clearTimeout of the pending timer, then setTimeout(..., DEBOUNCE_MS) capturing e.textEditor
OnLocalSelectionChange(c, editor) ==
  [c EXCEPT !.debounceTimer = Timer(editor, DEBOUNCE_MS)]

\* The messages sendCursorUpdate(editor) hands to sendFn: none on an early return
SendCursorUpdate(editor, by) ==
  IF DocScheme(editor) # "file" THEN <<>>
  ELSE IF ~wsOpen THEN <<>>
  ELSE IF ~StartsWith(DocFsPath(editor), RootPath) THEN <<>>
  ELSE <<CursorUpdateMsg(RelativePath(DocFsPath(editor)), sel[editor], by)>>

SendCurrentCursor(by) ==
  IF activeEditor # NoDoc THEN SendCursorUpdate(activeEditor, by) ELSE <<>>

\* A variant that unregisters the listeners and leaves the pending timer scheduled
DisposeKeepsTimer(c) ==
  [c EXCEPT !.state = "disposed"]

\* clearDecorations(): forgets the remote cursor state
ClearDecorations(c) ==
  [c EXCEPT !.remoteCursors = NoInput, !.remoteFileUri = NoPath,
            !.previousRemoteFileUri = NoPath]

\* The URIs of the event clearDecorations() fires: the remote file and the one
\* before it, as far as they are set
ClearDecorationsFires(c) ==
  (IF c.remoteFileUri # NoPath THEN <<c.remoteFileUri>> ELSE <<>>)
    \o (IF c.previousRemoteFileUri # NoPath THEN <<c.previousRemoteFileUri>> ELSE <<>>)

\* dispose(): clears the pending timer, clears the decorations and unregisters
\* the listeners
DisposeCursorSync(c) ==
  [ClearDecorations(c) EXCEPT !.state = "disposed", !.debounceTimer = NoTimer]

\* The scheduled timeouts of a CursorSync
Timeouts(c) == (IF c.debounceTimer # NoTimer THEN {c.debounceTimer} ELSE {}) \cup c.others

----------------------------------------------------------------------------
(* HostSession *)

NoObjs == [sharedbBridge |-> "none", documentSync |-> "none", fileOpsSync |-> "none"]
NewObjs == [sharedbBridge |-> "active", documentSync |-> "active", fileOpsSync |-> "active"]

\* An onClientConnected call: "open" while it awaits openTextDocument for the head
\* of files, "ensure" while it awaits ensureDoc (called on bridge) for it, "done"
\* when it returned, "rejected" when it threw
NoHandshake == [pc |-> "none", files |-> <<>>, bridge |-> 0, text |-> <<>>]

DocOrder == <<"a", "s", "x", "o">>

\* getOpenTextFiles(): the relative paths of the open file documents under the root
IsOpenTextFile(d) ==
  /\ d \in textDocuments
  /\ DocScheme(d) = "file"
  /\ StartsWith(DocFsPath(d), RootPath)

OpenDocsInOrder == SelectSeq(DocOrder, IsOpenTextFile)

GetOpenTextFiles ==
  IF ~wsOpen THEN <<>>
  ELSE [i \in 1..Len(OpenDocsInOrder) |-> RelativePath(DocFsPath(OpenDocsInOrder[i]))]

\* setupSync(): four new objects, activated, and _sendFn
SetupSync ==
  /\ gen' = gen + 1
  /\ sharedbBridge' = gen + 1
  /\ documentSync' = gen + 1
  /\ cursorSync' = gen + 1
  /\ fileOpsSync' = gen + 1
  /\ objs' = [objs EXCEPT ![gen + 1] = NewObjs]
  /\ cs' = [cs EXCEPT ![gen + 1] = NewCursorSync]
  /\ sendFnSet' = TRUE

\* A variant that tears down all but the file-operations component
TeardownSyncPartial ==
  /\ objs' = [g \in Gens |->
        [sharedbBridge |-> IF g = sharedbBridge THEN "disposed" ELSE objs[g].sharedbBridge,
         documentSync  |-> IF g = documentSync THEN "disposed" ELSE objs[g].documentSync,
         fileOpsSync   |-> objs[g].fileOpsSync]]
  /\ cs' = [g \in Gens |-> IF g = cursorSync THEN DisposeCursorSync(cs[g]) ELSE cs[g]]
  /\ fired' = IF cursorSync # 0 THEN ClearDecorationsFires(cs[cursorSync]) ELSE <<>>
  /\ replicas' = [g \in Gens |-> IF g = sharedbBridge THEN {} ELSE replicas[g]]
  /\ documentSync' = 0
  /\ sharedbBridge' = 0
  /\ cursorSync' = 0
  /\ UNCHANGED <<fileOpsSync, gen>>

\* teardownSync(): dispose and forget whatever the four fields hold
TeardownSync ==
  /\ objs' = [g \in Gens |->
        [sharedbBridge |-> IF g = sharedbBridge THEN "disposed" ELSE objs[g].sharedbBridge,
         documentSync  |-> IF g = documentSync THEN "disposed" ELSE objs[g].documentSync,
         fileOpsSync   |-> IF g = fileOpsSync THEN "disposed" ELSE objs[g].fileOpsSync]]
  /\ cs' = [g \in Gens |-> IF g = cursorSync THEN DisposeCursorSync(cs[g]) ELSE cs[g]]
  /\ fired' = IF cursorSync # 0 THEN ClearDecorationsFires(cs[cursorSync]) ELSE <<>>
  /\ replicas' = [g \in Gens |-> IF g = sharedbBridge THEN {} ELSE replicas[g]]
  /\ documentSync' = 0
  /\ sharedbBridge' = 0
  /\ cursorSync' = 0
  /\ fileOpsSync' = 0
  /\ UNCHANGED gen

\* The loop of onClientConnected from the head of an iteration, and the line after
\* it, to the next await: where the call stands then, and what it sent.
\* bridgeRef and csRef are this.sharedbBridge and this.cursorSync at that moment.
HandshakeAdvance(files, bridgeRef, csRef) ==
  IF files # <<>> /\ bridgeRef # 0
    THEN [hs |-> [pc |-> "open", files |-> files, bridge |-> 0, text |-> <<>>], send |-> <<>>]
  ELSE IF csRef = 0
    \* this.cursorSync!.sendCurrentCursor() on null: the call throws
    THEN [hs |-> [pc |-> "rejected", files |-> <<>>, bridge |-> 0, text |-> <<>>], send |-> <<>>]
  ELSE [hs |-> [pc |-> "done", files |-> <<>>, bridge |-> 0, text |-> <<>>],
        send |-> SendCurrentCursor(csRef)]

\* start()
Start ==
  /\ ~serverRunning /\ ~isStopping /\ ~sharedbServer
  /\ serverRunning' = TRUE
  /\ sharedbServer' = TRUE
  /\ statusBar' = "Hosting"
  /\ broadcaster' = TRUE
  /\ sent' = <<>>
  /\ UNCHANGED <<isStopping, clientUsername, sendFnSet, syncVars, cs, hs, replicas, peer,
                 editorVars, sinceChange, historyVars>>
  /\ input' = NoInput /\ warned' = FALSE /\ threw' = FALSE /\ fired' = <<>>
  /\ info' = "started"
  /\ UNCHANGED notHost

\* A variant that leaves the beacon running
StopKeepsBeacon ==
  /\ serverRunning
  /\ isStopping' = TRUE
  /\ TeardownSync
  /\ sharedbServer' = FALSE
  /\ serverRunning' = FALSE
  /\ statusBar' = "Disconnected"
  /\ sent' = <<>>
  /\ UNCHANGED <<broadcaster, clientUsername, sendFnSet, hs, peer, editorVars, sinceChange,
                 historyVars>>
  /\ input' = NoInput /\ warned' = FALSE /\ threw' = FALSE
  /\ info' = "stopped"
  /\ UNCHANGED notHost

\* stop()
Stop ==
  /\ serverRunning
  /\ isStopping' = TRUE
  /\ TeardownSync
  /\ sharedbServer' = FALSE
  /\ broadcaster' = FALSE
  /\ serverRunning' = FALSE
  /\ statusBar' = "Disconnected"
  /\ sent' = <<>>
  /\ UNCHANGED <<clientUsername, sendFnSet, hs, peer, editorVars, sinceChange, historyVars>>
  /\ input' = NoInput /\ warned' = FALSE /\ threw' = FALSE
  /\ info' = "stopped"
  /\ UNCHANGED notHost

Usernames == {"bob", ""}

\* wsFolder.name on the host
HostFolderName == "w"

\* The passphrase hash of a protected session, as the README's "set a passphrase
\* to protect the session" has it; HostSession holds and reads none
HostPassphraseHash == "good"

\* The Hello payloads a client sends
Hellos ==
  {HelloMsg(u, HostFolderName, "none") : u \in Usernames}
    \cup {HelloMsg("bob", "v", "none")}
    \cup {HelloMsg("bob", HostFolderName, h) : h \in {"good", "bad"}}

\* A variant that rejects a Hello whose folder name differs from the host's
OnClientConnectedRejectsFolder(hello) ==
  /\ serverRunning
  /\ peer' = TRUE
  /\ input' = hello
  /\ threw' = FALSE
  /\ fired' = <<>>
  /\ clientUsername' = IF hello.username = "" THEN "Anonymous" ELSE hello.username
  /\ warned' = FALSE
  /\ IF ~wsOpen \/ hello.workspaceFolder # HostFolderName
       THEN /\ sent' = <<ErrorMsg>>
            /\ info' = "none"
            /\ UNCHANGED <<statusBar, sendFnSet, syncVars, cs, hs>>
       ELSE /\ gen < MaxGen
            /\ info' = "connected"
            /\ statusBar' = "HostConnected"
            /\ SetupSync
            /\ LET openFiles == GetOpenTextFiles
                   adv == HandshakeAdvance(openFiles, gen + 1, gen + 1)
               IN  /\ sent' = <<WelcomeMsg(openFiles)>> \o adv.send
                   /\ hs' = [hs EXCEPT ![gen + 1] = adv.hs]
  /\ UNCHANGED <<serverRunning, sharedbServer, broadcaster, isStopping, replicas,
                 editorVars, sinceChange, historyVars>>
  /\ UNCHANGED notHost

\* A variant that sets up the sync components before it looks for the workspace folder
OnClientConnectedSetsUpFirst(hello) ==
  /\ serverRunning
  /\ peer' = TRUE
  /\ input' = hello
  /\ threw' = FALSE
  /\ fired' = <<>>
  /\ clientUsername' = IF hello.username = "" THEN "Anonymous" ELSE hello.username
  /\ warned' = (wsOpen /\ hello.workspaceFolder # HostFolderName)
  /\ gen < MaxGen
  /\ SetupSync
  /\ IF ~wsOpen
       THEN /\ sent' = <<ErrorMsg>>
            /\ info' = "none"
            /\ UNCHANGED <<statusBar, hs>>
       ELSE /\ info' = "connected"
            /\ statusBar' = "HostConnected"
            /\ LET openFiles == GetOpenTextFiles
                   adv == HandshakeAdvance(openFiles, gen + 1, gen + 1)
               IN  /\ sent' = <<WelcomeMsg(openFiles)>> \o adv.send
                   /\ hs' = [hs EXCEPT ![gen + 1] = adv.hs]
  /\ UNCHANGED <<serverRunning, sharedbServer, broadcaster, isStopping, replicas,
                 editorVars, sinceChange, historyVars>>
  /\ UNCHANGED notHost

\* onClientConnected(hello), to its first await: hello.passphraseHash is not read
OnClientConnected(hello) ==
  /\ serverRunning
  /\ peer' = TRUE
  /\ input' = hello
  /\ threw' = FALSE
  /\ fired' = <<>>
  /\ clientUsername' = IF hello.username = "" THEN "Anonymous" ELSE hello.username
  /\ IF ~wsOpen
       THEN /\ sent' = <<ErrorMsg>>
            /\ warned' = FALSE
            /\ info' = "none"
            /\ UNCHANGED <<statusBar, sendFnSet, syncVars, cs, hs>>
       ELSE /\ gen < MaxGen
            /\ warned' = (hello.workspaceFolder # HostFolderName)
            /\ info' = "connected"
            /\ statusBar' = "HostConnected"
            /\ SetupSync
            /\ LET openFiles == GetOpenTextFiles
                   adv == HandshakeAdvance(openFiles, gen + 1, gen + 1)
               IN  /\ sent' = <<WelcomeMsg(openFiles)>> \o adv.send
                   /\ hs' = [hs EXCEPT ![gen + 1] = adv.hs]
  /\ UNCHANGED <<serverRunning, sharedbServer, broadcaster, isStopping, replicas,
                 editorVars, sinceChange, historyVars>>
  /\ UNCHANGED notHost

ClientConnected == \E hello \in Hellos : OnClientConnected(hello)

\* doc.getText() of the document openTextDocument(toAbsoluteUri(filePath))
\* resolved to; a file no editor document stands for is empty
GetText(filePath) ==
  IF \E d \in Docs : DocFsPath(d) = ToAbsolutePath(filePath)
    THEN docText[CHOOSE d \in Docs : DocFsPath(d) = ToAbsolutePath(filePath)]
    ELSE <<>>

\* A ShareDB document as created from a snapshot: its content, its version and
\* the operations submitted to it that the server has not acknowledged
NewReplica(content) == [content |-> content, version |-> 0, pending |-> <<>>]

NoShareDocs == [q \in {} |-> NewReplica(<<>>)]

\* A variant that counts a seed of an existing document as a new version
SeedBumpsVersion(docs, filePath, content) ==
  IF filePath \in DOMAIN docs
    THEN [docs EXCEPT ![filePath].version = @ + 1]
    ELSE [q \in DOMAIN docs \cup {filePath} |->
            IF q = filePath THEN NewReplica(content) ELSE docs[q]]

\* The documents after ensureDoc(filePath, content): the document is created
\* from the snapshot if there is none for the path
Seed(docs, filePath, content) ==
  IF filePath \in DOMAIN docs
    THEN docs
    ELSE [q \in DOMAIN docs \cup {filePath} |->
            IF q = filePath THEN NewReplica(content) ELSE docs[q]]

\* onClientConnected resumes after await openTextDocument(uri)
HandshakeOpened(g, ok) ==
  /\ hs[g].pc = "open"
  /\ IF ok /\ sharedbBridge # 0
       THEN \* ensureDoc is called on the current bridge
            /\ hs' = [hs EXCEPT ![g] = [pc |-> "ensure", files |-> hs[g].files,
                                         bridge |-> sharedbBridge,
                                         text |-> GetText(Head(hs[g].files))]]
            /\ sent' = <<>>
            /\ threw' = FALSE
       ELSE \* caught: the file is skipped
            LET adv == HandshakeAdvance(Tail(hs[g].files), sharedbBridge, cursorSync)
            IN  /\ sent' = adv.send
                /\ hs' = [hs EXCEPT ![g] = adv.hs]
                /\ threw' = (adv.hs.pc = "rejected")
  /\ UNCHANGED <<sessionVars, syncVars, cs, replicas, peer, editorVars, sinceChange,
                 historyVars>>
  /\ input' = NoInput /\ warned' = FALSE /\ info' = "none" /\ fired' = <<>>
  /\ UNCHANGED notHost

\* ShareDBBridge.ensureDoc(filePath, content) has completed on bridge b
EnsureDoc(b, filePath) ==
  [replicas EXCEPT ![b] = IF objs[b].sharedbBridge = "active"
                            THEN replicas[b] \cup {filePath} ELSE replicas[b]]

\* onClientConnected resumes after await ensureDoc(filePath, text)
HandshakeEnsured(g, ok) ==
  /\ hs[g].pc = "ensure"
  /\ replicas' = IF ok THEN EnsureDoc(hs[g].bridge, Head(hs[g].files)) ELSE replicas
  /\ shareDocs' = IF ok /\ objs[hs[g].bridge].sharedbBridge = "active"
                    THEN Seed(shareDocs, Head(hs[g].files), hs[g].text)
                    ELSE shareDocs
  /\ LET adv == HandshakeAdvance(Tail(hs[g].files), sharedbBridge, cursorSync)
     IN  /\ sent' = adv.send
         /\ hs' = [hs EXCEPT ![g] = adv.hs]
         /\ threw' = (adv.hs.pc = "rejected")
  /\ UNCHANGED <<sessionVars, syncVars, cs, peer, editorVars, sinceChange, historyVars>>
  /\ input' = NoInput /\ warned' = FALSE /\ info' = "none" /\ fired' = <<>>
  /\ UNCHANGED <<otVars, saveVars, ignoredPatterns, docText, uiVars, extVars>>

HandshakeResume ==
  \E g \in Gens, ok \in BOOLEAN : HandshakeOpened(g, ok) \/ HandshakeEnsured(g, ok)

\* A variant that forgets the peer and keeps the status and the components
OnClientDisconnectedKeepsAll ==
  /\ peer
  /\ peer' = FALSE
  /\ sent' = <<>>
  /\ UNCHANGED <<sessionVars, syncVars, cs, replicas, hs, editorVars, sinceChange,
                 historyVars>>
  /\ Quiet
  /\ UNCHANGED notHost

\* A variant that does not look at isStopping
OnClientDisconnectedWhileStopping ==
  /\ peer
  /\ peer' = FALSE
  /\ TeardownSync
  /\ statusBar' = "Hosting"
  /\ info' = "disconnected"
  /\ clientUsername' = ""
  /\ sent' = <<>>
  /\ UNCHANGED <<serverRunning, sharedbServer, broadcaster, isStopping, sendFnSet, hs,
                 editorVars, sinceChange, historyVars>>
  /\ input' = NoInput /\ warned' = FALSE /\ threw' = FALSE
  /\ UNCHANGED notHost

\* onClientDisconnected()
OnClientDisconnected ==
  /\ peer
  /\ peer' = FALSE
  /\ IF isStopping
       THEN /\ UNCHANGED <<statusBar, clientUsername, syncVars, cs, replicas>>
            /\ info' = "none"
            /\ fired' = <<>>
       ELSE /\ TeardownSync
            /\ statusBar' = "Hosting"
            /\ info' = "disconnected"
            /\ clientUsername' = ""
  /\ sent' = <<>>
  /\ UNCHANGED <<serverRunning, sharedbServer, broadcaster, isStopping, sendFnSet, hs,
                 editorVars, sinceChange, historyVars>>
  /\ input' = NoInput /\ warned' = FALSE /\ threw' = FALSE
  /\ UNCHANGED notHost

----------------------------------------------------------------------------
(* The editor and the clock *)

Sels == 0..MaxSel

\* vscode.window.onDidChangeTextEditorSelection: every registered listener runs
SelectionChange(d, s) ==
  /\ d \in textDocuments
  /\ s # sel[d]
  /\ sel' = [sel EXCEPT ![d] = s]
  /\ sinceChange' = 0
  /\ lastEditor' = d
  /\ burst' = IF sinceChange < DEBOUNCE_MS THEN Min(burst + 1, MaxBurst) ELSE 1
  /\ cs' = [g \in Gens |->
              IF cs[g].state = "active" THEN OnLocalSelectionChange(cs[g], d)
              ELSE cs[g]]
  /\ sent' = <<>>
  /\ UNCHANGED <<sessionVars, syncVars, hs, replicas, peer, wsOpen, textDocuments,
                 activeEditor>>
  /\ Quiet
  /\ UNCHANGED notHost

LocalSelectionChange == \E d \in Docs, s \in Sels : SelectionChange(d, s)

\* A timeout t of CursorSync g fires: sendCursorUpdate(e.textEditor)
TimerFire(g, t) ==
  /\ t \in Timeouts(cs[g])
  /\ t.left = 0
  /\ sent' = SendCursorUpdate(t.editor, g)
  /\ cs' = [cs EXCEPT ![g] =
              [@ EXCEPT !.debounceTimer = IF @ = t THEN NoTimer ELSE @,
                        !.others = @ \ {t}]]
  /\ UNCHANGED <<sessionVars, syncVars, hs, replicas, peer, editorVars, sinceChange,
                 historyVars>>
  /\ Quiet
  /\ UNCHANGED notHost

AllTimeouts == UNION {Timeouts(cs[g]) : g \in Gens}

DebounceFire == \E g \in Gens : \E t \in AllTimeouts : TimerFire(g, t)

\* The time to the next timeout that is due, at most d
Elapse(d) ==
  IF \E t \in AllTimeouts : t.left < d
    THEN CHOOSE m \in {t.left : t \in AllTimeouts} : \A t \in AllTimeouts : m <= t.left
    ELSE d

Later(t, d) == [t EXCEPT !.left = @ - d]

\* Time passes: a timeout fires when it is due, so time stops at the next due one
Tick ==
  /\ AllTimeouts # {}
  /\ \A t \in AllTimeouts : t.left > 0
  /\ LET d == Elapse(TickMs)
     IN  /\ cs' = [g \in Gens |->
                    [cs[g] EXCEPT
                       !.debounceTimer = IF @ # NoTimer THEN Later(@, d) ELSE @,
                       !.others = {Later(t, d) : t \in @}]]
         /\ sinceChange' = Min(sinceChange + d, DEBOUNCE_MS)
  /\ sent' = <<>>
  /\ UNCHANGED <<sessionVars, syncVars, hs, replicas, peer, editorVars, historyVars>>
  /\ Quiet
  /\ UNCHANGED notHost


\* editor.document.lineCount: one more than the line breaks of the text
LineCount(d) == 1 + Cardinality({i \in 1..Len(docText[d]) : docText[d][i] = "\n"})

\* applyRemoteDecorations() throws: the active editor shows the file of the
\* remote cursors, and the for-of over the cursors finds them undefined or
\* document.lineAt(cursor.position.line) finds the line beyond the last one (the
\* cursors of a payload are one cursor, given by its line)
ApplyRemoteDecorationsThrows(editor, remoteCursors) ==
  /\ editor # NoDoc
  /\ wsOpen
  /\ remoteCursors.filePath # NoPath
  /\ RelativePath(DocFsPath(editor)) = remoteCursors.filePath
  /\ \/ remoteCursors.cursors = NoCursors
     \/ remoteCursors.cursors >= LineCount(editor)

\* The active editor changes; the onDidChangeActiveTextEditor listener of every
\* activated CursorSync re-applies its remote decorations
ChangeActiveEditor ==
  /\ \E d \in textDocuments \cup {NoDoc} :
        /\ d # activeEditor
        /\ activeEditor' = d
        /\ threw' = \E g \in Gens : /\ cs[g].state = "active"
                                    /\ ApplyRemoteDecorationsThrows(d, cs[g].remoteCursors)
  /\ sent' = <<>>
  /\ UNCHANGED <<sessionVars, syncVars, cs, hs, replicas, peer, wsOpen, textDocuments,
                 sel, sinceChange, historyVars>>
  /\ input' = NoInput
  /\ warned' = FALSE
  /\ info' = "none"
  /\ fired' = <<>>
  /\ UNCHANGED notHost

----------------------------------------------------------------------------
(* The host session: from the constructed HostSession on *)

\* The HostSession as constructed, in an editor with some documents open
\* The HostSession and the ClientSession objects
Sessions == 1..MaxSessions

HostInit ==
  /\ hostSession = 0
  /\ clientSession = 0
  /\ hostSessions = [o \in Sessions |-> "none"]
  /\ clientSessions = [o \in Sessions |-> "none"]
  /\ starting = {}
  /\ connecting = {}
  /\ prompts = 0
  /\ serverRunning = FALSE
  /\ sharedbServer = FALSE
  /\ broadcaster = FALSE
  /\ isStopping = FALSE
  /\ statusBar = "Disconnected"
  /\ clientUsername = ""
  /\ sendFnSet = FALSE
  /\ sharedbBridge = 0
  /\ documentSync = 0
  /\ cursorSync = 0
  /\ fileOpsSync = 0
  /\ gen = 0
  /\ objs = [g \in Gens |-> NoObjs]
  /\ cs = [g \in Gens |-> NoCursorSync]
  /\ hs = [g \in Gens |-> NoHandshake]
  /\ replicas = [g \in Gens |-> {}]
  /\ peer = FALSE
  /\ wsOpen \in BOOLEAN
  /\ textDocuments \in {D \in SUBSET Docs : Cardinality(D) <= MaxOpenDocs}
  /\ activeEditor \in textDocuments \cup {NoDoc}
  /\ sel = [d \in Docs |-> 0]
  /\ sinceChange = DEBOUNCE_MS
  /\ lastEditor = NoDoc
  /\ burst = 0
  /\ sent = <<>>
  /\ input = NoInput
  /\ warned = FALSE
  /\ threw = FALSE
  /\ info = "none"
  /\ fired = <<>>
  /\ shareDocs = NoShareDocs
  /\ docText = [d \in Docs |-> <<>>]
  /\ chatPrompt = FALSE
  /\ whiteboard = FALSE

\* The paths a FileSaveRequest can name
SavePaths == {<<"a">>, <<"/", "b">>}

\* Nothing is being saved
SaveIdle ==
  /\ clientWsOpen = TRUE
  /\ clientDirty = {}
  /\ clientDiskWrites = [d \in Docs |-> 0]
  /\ hostDiskWrites = [q \in SavePaths |-> 0]
  /\ toHost = <<>> /\ toClient = <<>>
  /\ hostSaves = <<>>
  /\ requests = [q \in SavePaths |-> 0]
  /\ fileSaved = [q \in SavePaths |-> 0]
  /\ reverts = [q \in SavePaths |-> 0]

\* No document is being edited
OtIdle ==
  /\ otBase = <<>> /\ otA = <<>> /\ otB = <<>>
  /\ hostDoc = <<>> /\ clientDoc = <<>>
  /\ hostPc = "idle" /\ clientPc = "idle"

Init == HostInit /\ OtIdle /\ SaveIdle /\ ignoredPatterns = <<>>

Next ==
  \/ Start
  \/ Stop
  \/ ClientConnected
  \/ HandshakeResume
  \/ OnClientDisconnected
  \/ LocalSelectionChange
  \/ DebounceFire
  \/ Tick
  \/ ChangeActiveEditor

Spec == Init /\ [][Next]_vars

----------------------------------------------------------------------------
(* Properties of the host session *)

\* The state of the session as the host shows it: Idle, Listening or Connected
SessionState ==
  CASE statusBar = "HostConnected" -> "Connected"
    [] statusBar = "Hosting"       -> "Listening"
    [] OTHER                       -> "Idle"

AllPresent == sharedbBridge # 0 /\ documentSync # 0 /\ cursorSync # 0 /\ fileOpsSync # 0
AllAbsent == sharedbBridge = 0 /\ documentSync = 0 /\ cursorSync = 0 /\ fileOpsSync = 0

HasWelcome(msgs) == \E i \in 1..Len(msgs) : msgs[i].type = "Welcome"

\* C2: while the session is Connected and stays so, a step (a second Hello among
\* them) replaces no sync component, leaves the client's username as it is and
\* sends no Welcome.
C2_SecondHelloRejected ==
  [][(SessionState = "Connected" /\ SessionState' = "Connected")
       => /\ <<sharedbBridge, documentSync, cursorSync, fileOpsSync>>'
               = <<sharedbBridge, documentSync, cursorSync, fileOpsSync>>
          /\ clientUsername' = clientUsername
          /\ ~HasWelcome(sent')]_vars

\* C4: when a Welcome is sent, the bridge holds a replica for every path of its
\* openFiles.
C4_ReplicasBeforeWelcome ==
  \A i \in 1..Len(sent) :
    sent[i].type = "Welcome" =>
      /\ sharedbBridge # 0
      /\ \A j \in 1..Len(sent[i].openFiles) :
           sent[i].openFiles[j] \in replicas[sharedbBridge]

\* The objects the four fields hold are disposed by the step, and the fields null
\* after it
TornDown ==
  /\ AllAbsent'
  /\ sharedbBridge # 0 => objs'[sharedbBridge].sharedbBridge = "disposed"
  /\ documentSync # 0 => objs'[documentSync].documentSync = "disposed"
  /\ fileOpsSync # 0 => objs'[fileOpsSync].fileOpsSync = "disposed"
  /\ cursorSync # 0 => cs'[cursorSync].state = "disposed"

\* setupSync has made four new objects and the fields hold them
FreshlySetUp ==
  /\ gen' = gen + 1
  /\ <<sharedbBridge, documentSync, cursorSync, fileOpsSync>>' = <<gen', gen', gen', gen'>>
  /\ objs[gen'] = NoObjs /\ objs'[gen'] = NewObjs
  /\ cs[gen'] = NoCursorSync /\ cs'[gen'] = NewCursorSync

\* C7: when the peer disconnects and the host was not stopped, the transport, the
\* document server and the beacon keep running, the sync components are torn
\* down and the status shows Hosting; and whenever the session becomes Connected,
\* after a disconnect too, its sync components are newly made ones.
C7_BackToListening ==
  /\ [][(peer /\ ~peer' /\ ~isStopping)
          => /\ serverRunning' /\ sharedbServer' /\ broadcaster' /\ ~isStopping'
             /\ TornDown
             /\ SessionState' = "Listening"]_vars
  /\ [][(SessionState # "Connected" /\ SessionState' = "Connected") => FreshlySetUp]_vars

\* A peer disconnected and a later Hello connected the session again
C7_Witness ==
  /\ gen = 2 /\ SessionState = "Connected" /\ cursorSync = 2
  /\ cs[1].state = "disposed" /\ objs[1].sharedbBridge = "disposed"
  /\ serverRunning /\ broadcaster

\* C8: a stop disposes the objects the four fields hold; and once stopped the
\* session is Idle: the four fields, the document server and the beacon are null,
\* the transport is not running and the status is Disconnected.
C8_StopLeavesIdle ==
  /\ [][(~isStopping /\ isStopping') => TornDown]_vars
  /\ [](isStopping =>
          /\ AllAbsent
          /\ ~sharedbServer /\ ~broadcaster /\ ~serverRunning
          /\ SessionState = "Idle" /\ statusBar = "Disconnected")

\* Stopped from Connected
C8_Witness ==
  /\ isStopping /\ gen = 1 /\ cs[1].state = "disposed"
  /\ objs[1] = [sharedbBridge |-> "disposed", documentSync |-> "disposed",
                fileOpsSync |-> "disposed"]

\* C9: the four sync components are all present or all absent, and present
\* exactly when the session is Connected.
C9_NoPartialTeardown ==
  /\ AllPresent \/ AllAbsent
  /\ AllPresent <=> SessionState = "Connected"
  /\ AllPresent => /\ sharedbBridge = documentSync
                   /\ documentSync = cursorSync
                   /\ cursorSync = fileOpsSync

\* Connected, then disconnected: through a setup and a teardown
C9_Witness == AllAbsent /\ gen = 1 /\ SessionState = "Listening" /\ ~peer

\* C10: a disposed CursorSync has no scheduled timeout and is not the sender of
\* any message.
C10_DisposeCancelsDebounce ==
  \A g \in Gens :
    cs[g].state = "disposed" =>
      /\ Timeouts(cs[g]) = {}
      /\ \A i \in 1..Len(sent) : sent[i].by # g

\* A selection change in a file of the workspace armed the timer, part of the
\* window passed and the CursorSync was disposed before the timer fired (time is
\* counted only while a timeout is scheduled)
C10_Witness ==
  /\ gen = 1 /\ cs[1].state = "disposed"
  /\ lastEditor = "a" /\ wsOpen
  /\ 0 < sinceChange /\ sinceChange < DEBOUNCE_MS
  /\ AllTimeouts = {}

\* A timeout of CursorSync g fires in the step
Fired(g) ==
  /\ Timeouts(cs'[g]) # Timeouts(cs[g])
  /\ Timeouts(cs'[g]) \subseteq Timeouts(cs[g])
  /\ cs'[g].state = cs[g].state
  /\ sel' = sel

\* sendCursorUpdate reports the selections of an editor that shows document d
Reportable(d) ==
  /\ d # NoDoc
  /\ DocScheme(d) = "file"
  /\ wsOpen
  /\ StartsWith(DocFsPath(d), RootPath)

\* C3 as stated: every burst of selection changes ends in exactly one CursorUpdate.
C3_ExactlyOneUpdate ==
  [][\A g \in Gens : Fired(g) => Len(sent') = 1 /\ sent'[1].type = "CursorUpdate"]_vars

\* C3: a selection change sends nothing by itself; a CursorSync's timeout fires one
\* window after the last selection change and leaves none of its timeouts
\* scheduled, and it sends one CursorUpdate with the selections of the last
\* change's editor when that editor shows a file under the workspace root, and
\* nothing otherwise.
C3_DebounceCoalescing ==
  /\ [][sel' # sel => sent' = <<>>]_vars
  /\ [][\A g \in Gens : Fired(g) =>
          /\ sinceChange = DEBOUNCE_MS
          /\ Timeouts(cs'[g]) = {}
          /\ sent' = IF Reportable(lastEditor)
                       THEN <<CursorUpdateMsg(RelativePath(DocFsPath(lastEditor)),
                                              sel[lastEditor], g)>>
                       ELSE <<>>]_vars

\* Two selection changes less than a window apart, the second one window ago, and
\* the one CursorUpdate for them has just been sent
C3_Witness ==
  /\ burst = 2
  /\ Len(sent) = 1 /\ sent[1].type = "CursorUpdate"
  /\ sent[1].filePath = <<"a">> /\ sent[1].cursors = 0
  /\ lastEditor = "a" /\ sel["a"] = 0 /\ sinceChange = DEBOUNCE_MS
  /\ cs[1].state = "active" /\ Timeouts(cs[1]) = {} /\ hs[1].pc = "open"

HasError(msgs) == \E i \in 1..Len(msgs) : msgs[i].type = "Error"

\* The step handles a Hello
HelloStep == input'.type = "Hello"

\* The step leaves the sync components as they are
SyncUntouched == UNCHANGED <<sharedbBridge, documentSync, cursorSync, fileOpsSync, gen, objs, cs>>

\* C11: a Hello whose passphrase hash is missing or is not the session's is
\* answered with Error alone, the connection is closed, no sync component is set
\* up and the session stays Listening.
C11_PassphraseMismatchRejected ==
  [][(HelloStep /\ SessionState = "Listening"
        /\ input'.passphraseHash # HostPassphraseHash)
       => /\ sent' = <<ErrorMsg>>
          /\ ~peer'
          /\ SyncUntouched
          /\ SessionState' = "Listening"]_vars

\* C12: a Hello whose workspaceFolder differs from the host's folder name is
\* handled as one with the matching name is: with a workspace folder open the
\* sync components are set up, the status shows the client connected and the
\* Welcome with the open files is sent first, with no Error, whatever the name;
\* the name decides only whether a warning is shown.
C12_FolderMismatchIsWarning ==
  [][(HelloStep /\ wsOpen)
       => /\ FreshlySetUp
          /\ SessionState' = "Connected"
          /\ Len(sent') >= 1 /\ sent'[1] = WelcomeMsg(GetOpenTextFiles)
          /\ ~HasError(sent')
          /\ warned' <=> (input'.workspaceFolder # HostFolderName)]_vars

\* A Hello with another folder name has just been answered with a Welcome
C12_Witness ==
  /\ input.type = "Hello" /\ input.workspaceFolder = "v"
  /\ warned /\ HasWelcome(sent) /\ ~HasError(sent)
  /\ AllPresent /\ cursorSync = gen /\ SessionState = "Connected"

\* C14: a step that handles a Hello sends exactly one message that is a Welcome or
\* an Error; it sets up the sync components when it sends the Welcome and leaves
\* them as they are when it sends the Error; without a workspace folder it sends
\* the Error.
C14_HandshakeOutcome ==
  [][HelloStep
       => /\ Cardinality({i \in 1..Len(sent') : sent'[i].type \in {"Welcome", "Error"}}) = 1
          /\ HasWelcome(sent') => FreshlySetUp
          /\ HasError(sent') => SyncUntouched
          /\ ~wsOpen => HasError(sent')]_vars

\* A Hello without a username to a host without a workspace folder has just
\* been answered with the Error
C14_Witness ==
  /\ input.type = "Hello" /\ ~wsOpen
  /\ sent = <<ErrorMsg>>
  /\ AllAbsent /\ gen = 0 /\ clientUsername = "Anonymous"

----------------------------------------------------------------------------
(* The text operations of the OT type (ot-text): an operation is a sequence of
   components, each a skip of n characters, an insert of a text or a delete
   of n characters *)

MaxDocLen == 2
MaxOpLen == 3

OtSkip(n) == [k |-> "skip", n |-> n, t |-> <<>>]
OtIns(t) == [k |-> "ins", n |-> Len(t), t |-> t]
OtDel(n) == [k |-> "del", n |-> n, t |-> <<>>]

\* apply(snapshot, op)
RECURSIVE OtApply(_, _)
OtApply(str, op) ==
  IF op = <<>> THEN str
  ELSE LET c == Head(op)
       IN  CASE c.k = "skip" -> SubSeq(str, 1, c.n) \o OtApply(Slice(str, c.n), Tail(op))
             [] c.k = "ins"  -> c.t \o OtApply(str, Tail(op))
             [] OTHER        -> OtApply(Slice(str, c.n), Tail(op))

\* append: an empty component is dropped, a component of the kind of the last
\* one is merged into it
OtAppend(op, c) ==
  IF c.n = 0 THEN op
  ELSE IF op = <<>> THEN <<c>>
  ELSE LET last == op[Len(op)]
       IN  IF last.k # c.k THEN Append(op, c)
           ELSE [op EXCEPT ![Len(op)] =
                   IF c.k = "ins" THEN OtIns(last.t \o c.t)
                   ELSE [last EXCEPT !.n = last.n + c.n]]

\* take(n, "i"): up to n characters from the front of op, an insert never split;
\* a skip of n when op is used up
OtTake(op, n) ==
  IF op = <<>> THEN [part |-> OtSkip(n), rest |-> <<>>]
  ELSE LET c == Head(op)
       IN  IF c.k = "ins" \/ c.n <= n THEN [part |-> c, rest |-> Tail(op)]
           ELSE [part |-> [c EXCEPT !.n = n],
                 rest |-> <<[c EXCEPT !.n = c.n - n]>> \o Tail(op)]

\* transform, over a skip of the other operation
RECURSIVE OtOverSkip(_, _)
OtOverSkip(st, length) ==
  IF length <= 0 THEN st
  ELSE LET tk == OtTake(st.op, length)
       IN  OtOverSkip([op |-> tk.rest, out |-> OtAppend(st.out, tk.part)],
                      IF tk.part.k = "ins" THEN length ELSE length - tk.part.n)

\* transform, over a delete of the other operation: what it deleted is neither
\* kept nor deleted again, an insert stays
RECURSIVE OtOverDelete(_, _)
OtOverDelete(st, length) ==
  IF length <= 0 THEN st
  ELSE LET tk == OtTake(st.op, length)
       IN  IF tk.part.k = "ins"
             THEN OtOverDelete([op |-> tk.rest, out |-> OtAppend(st.out, tk.part)], length)
             ELSE OtOverDelete([op |-> tk.rest, out |-> st.out], length - tk.part.n)

\* A variant without the tie-break: the other operation's insert always goes first
OtOverInsertNoSide(st, c, side) ==
  [st EXCEPT !.out = OtAppend(@, OtSkip(c.n))]

\* transform, over an insert of the other operation: on the left side an insert
\* of op at this place goes first; the inserted text is skipped
OtOverInsert(st, c, side) ==
  LET first == IF side = "left" /\ st.op # <<>> /\ Head(st.op).k = "ins"
                 THEN [op |-> Tail(st.op), out |-> OtAppend(st.out, Head(st.op))]
                 ELSE st
  IN  [first EXCEPT !.out = OtAppend(@, OtSkip(c.n))]

RECURSIVE OtOver(_, _, _)
OtOver(st, other, side) ==
  IF other = <<>> THEN st
  ELSE LET c == Head(other)
           nxt == CASE c.k = "skip" -> OtOverSkip(st, c.n)
                    [] c.k = "ins"  -> OtOverInsert(st, c, side)
                    [] OTHER        -> OtOverDelete(st, c.n)
       IN  OtOver(nxt, Tail(other), side)

RECURSIVE OtAppendAll(_, _)
OtAppendAll(op, cs2) ==
  IF cs2 = <<>> THEN op ELSE OtAppendAll(OtAppend(op, Head(cs2)), Tail(cs2))

\* trim: an operation ends with no skip
OtTrim(op) ==
  IF op # <<>> /\ op[Len(op)].k = "skip" THEN SubSeq(op, 1, Len(op) - 1) ELSE op

\* transform(op1, op2, side): op1 as it applies after op2
OtTransform(op1, op2, side) ==
  LET st == OtOver([op |-> op1, out |-> <<>>], op2, side)
  IN  OtTrim(OtAppendAll(st.out, st.op))

\* The characters a document consists of, and the texts each side inserts
DocText == <<"x", "y", "z">>
OtBases == {SubSeq(DocText, 1, n) : n \in 0..MaxDocLen}
HostTexts == {<<"h">>}
ClientTexts == {<<"c">>, <<"c", "d">>}

OtComponents(texts) ==
  {OtSkip(n) : n \in 1..MaxDocLen} \cup {OtDel(n) : n \in 1..MaxDocLen}
    \cup {OtIns(t) : t \in texts}

RECURSIVE OtConsumed(_)
OtConsumed(op) ==
  IF op = <<>> THEN 0
  ELSE (IF Head(op).k = "ins" THEN 0 ELSE Head(op).n) + OtConsumed(Tail(op))

\* checkOp, and the operation fits a document of length len
OtValid(op, len) ==
  /\ OtConsumed(op) <= len
  /\ op # <<>> => op[Len(op)].k # "skip"
  /\ \A i \in 1..(Len(op) - 1) : op[i].k # op[i + 1].k

OtOps(texts, len) ==
  {op \in UNION {[1..n -> OtComponents(texts)] : n \in 0..MaxOpLen} : OtValid(op, len)}

\* The host edits its replica and sends the operation
HostEdit ==
  /\ hostPc = "idle"
  /\ hostDoc' = OtApply(hostDoc, otA)
  /\ hostPc' = "edited"
  /\ UNCHANGED <<otBase, otA, otB, clientDoc, clientPc>>
  /\ UNCHANGED notOt

\* The client edits its replica and sends the operation
ClientEdit ==
  /\ clientPc = "idle"
  /\ clientDoc' = OtApply(clientDoc, otB)
  /\ clientPc' = "edited"
  /\ UNCHANGED <<otBase, otA, otB, hostDoc, hostPc>>
  /\ UNCHANGED notOt

\* The host receives the client's operation, concurrent with its own
HostMerge ==
  /\ hostPc = "edited" /\ clientPc # "idle"
  /\ hostDoc' = OtApply(hostDoc, OtTransform(otB, otA, "right"))
  /\ hostPc' = "merged"
  /\ UNCHANGED <<otBase, otA, otB, clientDoc, clientPc>>
  /\ UNCHANGED notOt

\* The client receives the host's operation, concurrent with its own
ClientMerge ==
  /\ clientPc = "edited" /\ hostPc # "idle"
  /\ clientDoc' = OtApply(clientDoc, OtTransform(otA, otB, "left"))
  /\ clientPc' = "merged"
  /\ UNCHANGED <<otBase, otA, otB, hostDoc, hostPc>>
  /\ UNCHANGED notOt

\* A session with nobody connected and nothing open
HostIdle ==
  /\ HostInit
  /\ ignoredPatterns = <<>>
  /\ wsOpen /\ textDocuments = {} /\ activeEditor = NoDoc

InitOT ==
  /\ HostIdle
  /\ SaveIdle
  /\ otBase \in OtBases
  /\ otA \in OtOps(HostTexts, Len(otBase))
  /\ otB \in OtOps(ClientTexts, Len(otBase))
  /\ hostDoc = otBase /\ clientDoc = otBase
  /\ hostPc = "idle" /\ clientPc = "idle"

NextOT == HostEdit \/ ClientEdit \/ HostMerge \/ ClientMerge

SpecOT == InitOT /\ [][NextOT]_vars

\* op inserts one text at offset p and does nothing else
IsInsertAt(op, p) ==
  \/ p = 0 /\ Len(op) = 1 /\ op[1].k = "ins"
  \/ p > 0 /\ Len(op) = 2 /\ op[1] = OtSkip(p) /\ op[2].k = "ins"

InsertedText(op) == op[Len(op)].t

\* C1: when each side has applied its own operation and then the other's,
\* transformed, the two replicas hold the same text; and when both operations
\* insert at one offset, the host's text stands before the client's.
C1_Convergence ==
  (hostPc = "merged" /\ clientPc = "merged") =>
    /\ hostDoc = clientDoc
    /\ \A p \in 0..Len(otBase) :
         (IsInsertAt(otA, p) /\ IsInsertAt(otB, p)) =>
           hostDoc = SubSeq(otBase, 1, p) \o InsertedText(otA) \o InsertedText(otB)
                       \o Slice(otBase, p)

\* Both sides inserted at offset 1 of "xy" and have merged
C1_Witness ==
  /\ hostPc = "merged" /\ clientPc = "merged"
  /\ otBase = <<"x", "y">>
  /\ IsInsertAt(otA, 1) /\ IsInsertAt(otB, 1)
  /\ hostDoc = <<"x", "h", "c", "y">>

----------------------------------------------------------------------------
(* DocumentSync: save delegation *)

MaxSaves == 2

FileSaveRequestMsg(filePath) == Msg("FileSaveRequest", filePath, <<>>, 0, 0)
FileSavedMsg(filePath) == Msg("FileSaved", filePath, <<>>, 0, 0)

\* toRelativePath(uri) on the client: <<>> stands for null
ToRelativePath(d) ==
  IF ~clientWsOpen THEN <<>>
  ELSE IF ~StartsWith(DocFsPath(d), RootPath) THEN <<>>
  ELSE RelativePath(DocFsPath(d))

\* The onWillSaveTextDocument listener activate() registers on a client: the
\* messages it hands to sendFn. A host registers no listener.
OnWillSaveTextDocument(isHost, d) ==
  IF isHost THEN <<>>
  ELSE IF DocScheme(d) # "file" THEN <<>>
  ELSE IF ToRelativePath(d) = <<>> THEN <<>>
  ELSE <<FileSaveRequestMsg(ToRelativePath(d))>>

\* What handleFileSaveRequest sends when doc.save() has settled: save() resolves
\* to true ("saved") or to false ("notSaved"), or rejects ("threw")
AfterSave(filePath, outcome) ==
  IF outcome = "threw" THEN <<>> ELSE <<FileSavedMsg(filePath)>>

\* The sum of the values of a counter
RECURSIVE TotalOver(_, _)
TotalOver(f, keys) ==
  IF keys = {} THEN 0
  ELSE LET k == CHOOSE x \in keys : TRUE IN f[k] + TotalOver(f, keys \ {k})

Total(f) == TotalOver(f, DOMAIN f)

Count(msgs, f) == [q \in SavePaths |-> f[q] + Cardinality({i \in 1..Len(msgs) : msgs[i].filePath = q})]

\* The user edits a document on the client
ClientEditsDocument ==
  /\ \E d \in Docs :
       /\ d \notin clientDirty
       /\ clientDirty' = clientDirty \cup {d}
  /\ UNCHANGED <<clientWsOpen, clientDiskWrites, hostDiskWrites, toHost, toClient,
                 hostSaves, requests, fileSaved, reverts>>
  /\ UNCHANGED notSave

\* The user saves a document on the client: the editor runs the will-save
\* listeners, waits for what they passed to waitUntil (here no edits), and then
\* writes the document to the disk; a listener cannot cancel the save
ClientSave(d) ==
  /\ d \in clientDirty
  /\ Total(clientDiskWrites) < MaxSaves
  /\ LET send == OnWillSaveTextDocument(FALSE, d)
     IN  /\ toHost' = toHost \o send
         /\ requests' = Count(send, requests)
  /\ clientDiskWrites' = [clientDiskWrites EXCEPT ![d] = @ + 1]
  /\ clientDirty' = clientDirty \ {d}
  /\ UNCHANGED <<clientWsOpen, hostDiskWrites, toClient, hostSaves, fileSaved, reverts>>
  /\ UNCHANGED notSave

ClientSaves == \E d \in Docs : ClientSave(d)

\* The user saves a file on the host: the host's DocumentSync has no listener
HostSavesFile ==
  /\ \E q \in SavePaths :
       /\ Total(hostDiskWrites) < MaxSaves
       /\ hostDiskWrites' = [hostDiskWrites EXCEPT ![q] = @ + 1]
  /\ toClient' = toClient \o OnWillSaveTextDocument(TRUE, "a")
  /\ UNCHANGED <<clientWsOpen, clientDirty, clientDiskWrites, toHost, hostSaves,
                 requests, fileSaved, reverts>>
  /\ UNCHANGED notSave

\* The host's router hands a FileSaveRequest to handleFileSaveRequest, which
\* awaits openTextDocument
HostReceivesRequest ==
  /\ toHost # <<>>
  /\ toHost' = Tail(toHost)
  /\ hostSaves' = Append(hostSaves, [filePath |-> Head(toHost).filePath, pc |-> "open"])
  /\ UNCHANGED <<clientWsOpen, clientDirty, clientDiskWrites, hostDiskWrites, toClient,
                 requests, fileSaved, reverts>>
  /\ UNCHANGED notSave

Without(q, i) == SubSeq(q, 1, i - 1) \o SubSeq(q, i + 1, Len(q))

\* handleFileSaveRequest resumes after await openTextDocument(uri)
HostOpened(i, ok) ==
  /\ hostSaves[i].pc = "open"
  /\ hostSaves' = IF ok THEN [hostSaves EXCEPT ![i].pc = "save"] ELSE Without(hostSaves, i)
  /\ UNCHANGED <<clientWsOpen, clientDirty, clientDiskWrites, hostDiskWrites, toHost,
                 toClient, requests, fileSaved, reverts>>
  /\ UNCHANGED notSave

\* handleFileSaveRequest resumes after await doc.save()
HostSaved(i, outcome) ==
  /\ hostSaves[i].pc = "save"
  /\ hostDiskWrites' = IF outcome = "saved"
                         THEN [hostDiskWrites EXCEPT ![hostSaves[i].filePath] = @ + 1]
                         ELSE hostDiskWrites
  /\ LET send == AfterSave(hostSaves[i].filePath, outcome)
     IN  /\ toClient' = toClient \o send
         /\ fileSaved' = Count(send, fileSaved)
  /\ hostSaves' = Without(hostSaves, i)
  /\ UNCHANGED <<clientWsOpen, clientDirty, clientDiskWrites, toHost, requests, reverts>>
  /\ UNCHANGED notSave

HostOpens == \E i \in 1..Len(hostSaves), ok \in BOOLEAN : HostOpened(i, ok)

SaveOutcomes == {"saved", "notSaved", "threw"}

HostSaveSettles == \E i \in 1..Len(hostSaves), outcome \in SaveOutcomes : HostSaved(i, outcome)

\* handleFileSaved on the client: workbench.action.files.revert of the file
ClientReceivesSaved ==
  /\ toClient # <<>>
  /\ toClient' = Tail(toClient)
  /\ LET q == Head(toClient).filePath
     IN  /\ reverts' = [reverts EXCEPT ![q] = @ + 1]
         /\ clientDirty' = {d \in clientDirty : DocFsPath(d) # ToAbsolutePath(q)}
  /\ UNCHANGED <<clientWsOpen, clientDiskWrites, hostDiskWrites, toHost, hostSaves,
                 requests, fileSaved>>
  /\ UNCHANGED notSave

InitSave ==
  /\ HostIdle
  /\ OtIdle
  /\ clientWsOpen \in BOOLEAN
  /\ clientDirty = {}
  /\ clientDiskWrites = [d \in Docs |-> 0]
  /\ hostDiskWrites = [q \in SavePaths |-> 0]
  /\ toHost = <<>> /\ toClient = <<>>
  /\ hostSaves = <<>>
  /\ requests = [q \in SavePaths |-> 0]
  /\ fileSaved = [q \in SavePaths |-> 0]
  /\ reverts = [q \in SavePaths |-> 0]

NextSave ==
  \/ ClientEditsDocument
  \/ ClientSaves
  \/ HostSavesFile
  \/ HostReceivesRequest
  \/ HostOpens
  \/ HostSaveSettles
  \/ ClientReceivesSaved

SpecSave == InitSave /\ [][NextSave]_vars

\* C5: the host sends FileSaved for a path no more often than it wrote the file
\* to its disk, and the client reverts a file no more often than a FileSaved for
\* it was sent.
C5_FileSavedOnlyWhenWritten ==
  \A q \in SavePaths :
    /\ fileSaved[q] <= hostDiskWrites[q]
    /\ reverts[q] <= fileSaved[q]

\* C6: the client's editor writes no document of the workspace to the client's
\* disk, and the host sends no FileSaveRequest.
C6_ClientNeverWrites ==
  /\ \A d \in Docs : ToRelativePath(d) # <<>> => clientDiskWrites[d] = 0
  /\ \A i \in 1..Len(toClient) : toClient[i].type # "FileSaveRequest"

----------------------------------------------------------------------------
(* FileOpsSync and the Ignore Pattern Set *)

MaxPatterns == 2

Patterns == {<<"a">>, <<"*">>, <<"*", "*", "/", "a">>, <<"b", "/", "*", "*">>, <<"*", "a">>}

\* The values of pairprog.ignoredPatterns: lists of patterns
PatternLists == UNION {[1..n -> Patterns] : n \in 0..MaxPatterns}

\* The workspace-relative paths of the file-system events
EventPaths == {<<"a">>, <<".", "a">>, <<"b", "/", "a">>, <<"b", "/", ".", "a">>}

FsEventKinds == {"created", "deleted", "renamed"}

FileOpMsg(kind, filePath, by) ==
  Msg(CASE kind = "created" -> "FileCreated"
        [] kind = "deleted" -> "FileDeleted"
        [] OTHER            -> "FileRenamed",
      filePath, <<>>, 0, by)

\* The file-system watcher of FileOpsSync g reports an event: the path is
\* filtered against the patterns the FileOpsSync was made with, and the message
\* is sent when it is not excluded
OnFileSystemEvent(g, kind, path) ==
  /\ objs[g].fileOpsSync = "active"
  /\ input' = Inbound(kind, "none", "none", "none", path, NoPath, NoCursors)
  /\ threw' = FALSE
  /\ warned' = FALSE
  /\ info' = "none"
  /\ fired' = <<>>
  /\ sent' = IF IsIgnoredByPatterns(path, ignoredPatterns)
               THEN <<>> ELSE <<FileOpMsg(kind, path, g)>>
  /\ UNCHANGED <<sessionVars, syncVars, cs, hs, replicas, peer, editorVars, sinceChange,
                 historyVars>>
  /\ UNCHANGED notHost

FileSystemEvent ==
  \E g \in Gens, kind \in FsEventKinds, path \in EventPaths : OnFileSystemEvent(g, kind, path)

\* The host as constructed, with at most the file a of the workspace open and
\* no active editor, and some Ignore Pattern Set configured
InitFileOps ==
  /\ HostInit
  /\ textDocuments \subseteq {"a"}
  /\ activeEditor = NoDoc
  /\ OtIdle
  /\ SaveIdle
  /\ ignoredPatterns \in PatternLists

NextFileOps ==
  \/ Start
  \/ Stop
  \/ ClientConnected
  \/ HandshakeResume
  \/ OnClientDisconnected
  \/ FileSystemEvent

SpecFileOps == InitFileOps /\ [][NextFileOps]_vars

\* C13: no path of a Welcome's openFiles matches a pattern of the Ignore Pattern
\* Set.
C13_OpenFilesNotIgnored ==
  \A i \in 1..Len(sent) :
    sent[i].type = "Welcome" =>
      \A j \in 1..Len(sent[i].openFiles) :
        ~IsIgnoredByPatterns(sent[i].openFiles[j], ignoredPatterns)

\* Some pattern of the Ignore Pattern Set matches the path
SomePatternMatches(path) ==
  \E i \in 1..Len(ignoredPatterns) : Minimatch(path, ignoredPatterns[i])

----------------------------------------------------------------------------
(* The message router of the host and the remote cursor state of CursorSync *)

CursorUpdateIn(filePath, cursors) ==
  Inbound("CursorUpdate", "bob", "none", "none", filePath, NoPath, cursors)

\* FileRenamed{oldPath, newPath}
FileRenamedIn(oldPath, newPath) ==
  Inbound("FileRenamed", "none", "none", "none", oldPath, newPath, NoCursors)

\* The messages a client sends: CursorUpdates, some without filePath or without
\* cursors, and a FileRenamed
InboundMsgs ==
  {CursorUpdateIn(f, c) : f \in {<<"a">>, <<"b">>, NoPath}, c \in {NoCursors, 0}}
    \cup {FileRenamedIn(<<"a">>, <<"b">>)}

\* updateFileTabDecoration(relativePath): Uri.joinPath throws on an undefined
\* path; the event names the file before the last, unless it is the new one, and
\* the new one
UpdateFileTabDecoration(c, relativePath) ==
  IF ~wsOpen THEN [c |-> c, threw |-> FALSE, fired |-> <<>>]
  ELSE IF relativePath = NoPath THEN [c |-> c, threw |-> TRUE, fired |-> <<>>]
  ELSE LET newUri == ToAbsolutePath(relativePath)
       IN  [c |-> [c EXCEPT !.previousRemoteFileUri = c.remoteFileUri,
                            !.remoteFileUri = newUri],
            threw |-> FALSE,
            fired |-> (IF c.previousRemoteFileUri # NoPath /\ c.previousRemoteFileUri # newUri
                         THEN <<c.previousRemoteFileUri>> ELSE <<>>) \o <<newUri>>]

\* A variant that keeps the stored state once there is one
HandleRemoteCursorUpdateKeepsFirst(c, payload) ==
  LET stored == IF c.remoteCursors = NoInput THEN [c EXCEPT !.remoteCursors = payload] ELSE c
  IN  IF ApplyRemoteDecorationsThrows(activeEditor, stored.remoteCursors)
        THEN [c |-> stored, threw |-> TRUE, fired |-> <<>>]
        ELSE UpdateFileTabDecoration(stored, payload.filePath)

\* handleRemoteCursorUpdate(payload): the CursorSync after it, and whether it threw
HandleRemoteCursorUpdate(c, payload) ==
  LET stored == [c EXCEPT !.remoteCursors = payload]
  IN  IF ApplyRemoteDecorationsThrows(activeEditor, stored.remoteCursors)
        THEN [c |-> stored, threw |-> TRUE, fired |-> <<>>]
        ELSE UpdateFileTabDecoration(stored, payload.filePath)

\* A variant that hands a FileSaveRequest on without looking at the field
HandlesSaveWithoutComponent(msg) == msg.type = "FileSaveRequest"

\* case FileSaveRequest: if (this.documentSync)
HandlesSave(msg) == msg.type = "FileSaveRequest" /\ documentSync # 0

\* onMessage(msg) up to its first await: a CursorUpdate goes to the CursorSync of
\* the field; a FollowUpdate likewise (what the CursorSync does with it is outside
\* the model); a FileSaveRequest starts a handleFileSaveRequest call of the
\* DocumentSync of the field; a WhiteboardStroke makes the whiteboard if there is
\* a send function; a ChatMessage shows an information message; a type without a
\* case is left alone
OnMessage(msg) ==
  /\ serverRunning /\ peer
  /\ msg.type = "FileSaveRequest" => Len(hostSaves) + Total(fileSaved) < MaxSaves
  /\ input' = msg
  /\ warned' = FALSE
  /\ IF msg.type = "CursorUpdate" /\ cursorSync # 0
       THEN LET r == HandleRemoteCursorUpdate(cs[cursorSync], msg)
            IN  /\ cs' = [cs EXCEPT ![cursorSync] = r.c]
                /\ threw' = r.threw
                /\ fired' = r.fired
       ELSE /\ cs' = cs
            /\ threw' = FALSE
            /\ fired' = <<>>
  /\ hostSaves' = IF HandlesSave(msg)
                    THEN Append(hostSaves, [filePath |-> msg.filePath, pc |-> "open"])
                    ELSE hostSaves
  /\ whiteboard' = (whiteboard \/ (msg.type = "WhiteboardStroke" /\ sendFnSet))
  /\ info' = IF msg.type = "ChatMessage" THEN "chat" ELSE "none"
  /\ sent' = <<>>
  /\ UNCHANGED <<sessionVars, syncVars, hs, replicas, peer, editorVars, sinceChange,
                 historyVars>>
  /\ UNCHANGED <<clientWsOpen, clientDirty, clientDiskWrites, hostDiskWrites, toHost,
                 toClient, requests, fileSaved, reverts>>
  /\ UNCHANGED <<otVars, ignoredPatterns, replicaVars, chatPrompt, extVars>>

ReceiveMessage == \E msg \in InboundMsgs : OnMessage(msg)

\* The host as constructed, with at most the file a of the workspace open
InitRemote ==
  /\ HostInit
  /\ textDocuments \subseteq {"a"}
  /\ OtIdle
  /\ SaveIdle
  /\ ignoredPatterns = <<>>

NextRemote ==
  \/ Start
  \/ Stop
  \/ ClientConnected
  \/ HandshakeResume
  \/ OnClientDisconnected
  \/ ChangeActiveEditor
  \/ ReceiveMessage

SpecRemote == InitRemote /\ [][NextRemote]_vars

\* The payload of the message lacks a required field
Malformed(msg) ==
  msg.type = "CursorUpdate" /\ (msg.filePath = NoPath \/ msg.cursors = NoCursors)

\* C15: the handler of a message whose payload lacks a required field does not
\* throw, and leaves the session and its sync components as they are.
C15_MalformedDropped ==
  [][Malformed(input') => ~threw' /\ UNCHANGED <<sessionVars, syncVars, cs>>]_vars

\* C20: a CursorUpdate handed to the CursorSync makes its payload the stored
\* state, whatever was stored; no other step changes the stored state of a
\* CursorSync but one that disposes it; and a CursorSync that is disposed, or was
\* never activated, stores nothing.
C20_LatestCursorState ==
  /\ [][(input'.type = "CursorUpdate" /\ cursorSync # 0)
          => cs'[cursorSync].remoteCursors = input']_vars
  /\ [][\A g \in Gens :
          cs'[g].remoteCursors # cs[g].remoteCursors
            => \/ input'.type = "CursorUpdate" /\ g = cursorSync
               \/ cs'[g].state = "disposed"]_vars
  /\ [](\A g \in Gens :
          cs[g].state # "active"
            => /\ cs[g].remoteCursors = NoInput
               /\ cs[g].remoteFileUri = NoPath
               /\ cs[g].previousRemoteFileUri = NoPath)

\* A second CursorUpdate, for another file, has replaced the first
C20_Witness ==
  /\ cursorSync = 1
  /\ input = CursorUpdateIn(<<"b">>, 0)
  /\ cs[1].remoteCursors = input
  /\ cs[1].remoteFileUri = ToAbsolutePath(<<"b">>)
  /\ cs[1].previousRemoteFileUri = ToAbsolutePath(<<"a">>)

----------------------------------------------------------------------------
(* The order of the host's message handlers *)

\* C16: no two handlers of inbound messages are in progress on the host at once:
\* the handling of a FileSaveRequest, its save included, is over before the next
\* message is handed to the router.
C16_OneHandlerAtATime == Len(hostSaves) <= 1

----------------------------------------------------------------------------
(* The ShareDB documents of the host: seeding, local edits, acknowledgements
   and a FileRenamed from the client *)

MaxEdits == 2

\* insert the character ch into text after its first pos characters
InsertAt(text, pos, ch) == SubSeq(text, 1, pos) \o <<ch>> \o SubSeq(text, pos + 1, Len(text))

\* The bridges that submit an edit of the file: the undisposed ones that have
\* materialized its document
Submitters(filePath) ==
  {g \in Gens : objs[g].sharedbBridge = "active" /\ filePath \in replicas[g]}

\* The ShareDB document after n bridges submitted the insertion op to it; an
\* operation that reaches beyond the content is rejected
RECURSIVE Submit(_, _, _)
Submit(replica, op, n) ==
  IF n = 0 \/ op.pos > Len(replica.content) THEN replica
  ELSE Submit([replica EXCEPT !.content = InsertAt(@, op.pos, op.ch),
                              !.pending = Append(@, op)], op, n - 1)

\* The host types a character at the end of document d; every bridge that
\* listens submits the operation to the ShareDB document of the file
HostEdits(d) ==
  /\ d \in textDocuments
  /\ Len(docText[d]) < MaxEdits
  /\ docText' = [docText EXCEPT ![d] = Append(@, "x")]
  /\ LET filePath == RelativePath(DocFsPath(d))
         op == [pos |-> Len(docText[d]), ch |-> "x"]
     IN  shareDocs' = IF filePath \in DOMAIN shareDocs
                        THEN [shareDocs EXCEPT ![filePath] =
                                Submit(@, op, Cardinality(Submitters(filePath)))]
                        ELSE shareDocs
  /\ sent' = <<>>
  /\ UNCHANGED <<sessionVars, syncVars, cs, hs, replicas, peer, editorVars, sinceChange,
                 historyVars>>
  /\ Quiet
  /\ UNCHANGED <<otVars, saveVars, ignoredPatterns, uiVars, extVars>>

HostTypes == \E d \in Docs : HostEdits(d)

\* The ShareDB server acknowledges the oldest pending operation of a document
AckOp(filePath) ==
  /\ filePath \in DOMAIN shareDocs
  /\ shareDocs[filePath].pending # <<>>
  /\ shareDocs' = [shareDocs EXCEPT ![filePath].pending = Tail(@),
                                    ![filePath].version = @ + 1]
  /\ sent' = <<>>
  /\ UNCHANGED <<sessionVars, syncVars, cs, hs, replicas, peer, editorVars, sinceChange,
                 historyVars>>
  /\ Quiet
  /\ UNCHANGED <<otVars, saveVars, ignoredPatterns, docText, uiVars, extVars>>

Ack == \E filePath \in DOMAIN shareDocs : AckOp(filePath)

\* The client reports the rename of a to b
ReceiveRenamed == OnMessage(FileRenamedIn(<<"a">>, <<"b">>))

\* The host as constructed, with a workspace folder and at most the file a open
InitReplica ==
  /\ HostInit
  /\ wsOpen
  /\ textDocuments \subseteq {"a"}
  /\ activeEditor = NoDoc
  /\ OtIdle
  /\ SaveIdle
  /\ ignoredPatterns = <<>>

NextReplica ==
  \/ Start
  \/ Stop
  \/ ClientConnected
  \/ HandshakeResume
  \/ OnClientDisconnected
  \/ HostTypes
  \/ Ack
  \/ ReceiveRenamed

SpecReplica == InitReplica /\ [][NextReplica]_vars

\* The snapshots a document can be seeded from
Snapshots == {<<>>, <<"x">>, <<"x", "x">>}

\* C18: seeding a document twice from one snapshot gives what seeding it once
\* gives, and an ensureDoc for a path whose document holds the content it is
\* called with leaves the document as it is: content, version and pending
\* operations.
C18_IdempotentReseed ==
  /\ [](\A filePath \in {<<"a">>, <<"b">>}, content \in Snapshots :
          Seed(Seed(shareDocs, filePath, content), filePath, content)
            = Seed(shareDocs, filePath, content))
  /\ [][\A g \in Gens :
          (/\ hs[g].pc = "ensure"
           /\ hs'[g] # hs[g]
           /\ Head(hs[g].files) \in DOMAIN shareDocs
           /\ shareDocs[Head(hs[g].files)].content = hs[g].text)
            => shareDocs'[Head(hs[g].files)] = shareDocs[Head(hs[g].files)]]_vars

\* Two bridges have each completed ensureDoc for a with the text the document
\* has had all along, and the ShareDB document is as the first seed made it
C18_Witness ==
  /\ <<"a">> \in replicas[1] /\ <<"a">> \in replicas[2]
  /\ docText["a"] = <<>>
  /\ <<"a">> \in DOMAIN shareDocs
  /\ shareDocs[<<"a">>] = NewReplica(<<>>)

\* C19: when the host handles FileRenamed{old, new} while the document of old
\* has unacknowledged operations, there is no document under old afterwards and
\* the document under new is the one old had: content, version and pending
\* operations.
C19_RenameRekeysReplica ==
  [][(/\ input'.type = "FileRenamed"
      /\ input'.filePath \in DOMAIN shareDocs
      /\ shareDocs[input'.filePath].pending # <<>>)
        => /\ input'.filePath \notin DOMAIN shareDocs'
           /\ input'.newPath \in DOMAIN shareDocs'
           /\ shareDocs'[input'.newPath] = shareDocs[input'.filePath]]_vars

----------------------------------------------------------------------------
(* The handshake handler and the teardown of its connection *)

\* The onClientConnected call g resumes in the step, after the components its
\* setupSync made were torn down
ResumesAfterTeardown(g) ==
  /\ hs[g].pc \in {"open", "ensure"}
  /\ hs'[g] # hs[g]
  /\ objs[g].sharedbBridge = "disposed"

\* C22: an onClientConnected call that resumes after the peer disconnected or
\* the host was stopped does not throw and sends nothing.
C22_ContinuationAfterTeardown ==
  [][\A g \in Gens : ResumesAfterTeardown(g) => ~threw' /\ sent' = <<>>]_vars

----------------------------------------------------------------------------
(* The beacon and the chat command of a host session *)

\* A variant whose error listener stops the beacon
OnBeaconErrorStopsBeacon ==
  /\ broadcaster
  /\ input' = EventIn("BeaconError")
  /\ broadcaster' = FALSE
  /\ sent' = <<>>
  /\ warned' = FALSE /\ threw' = FALSE /\ info' = "none" /\ fired' = <<>>
  /\ UNCHANGED <<serverRunning, sharedbServer, isStopping, statusBar, clientUsername,
                 sendFnSet, syncVars, cs, hs, replicas, peer, editorVars, sinceChange,
                 historyVars>>
  /\ UNCHANGED notHost

\* The broadcaster emits "error": the listener start() registered logs it
OnBeaconError ==
  /\ broadcaster
  /\ input' = EventIn("BeaconError")
  /\ sent' = <<>>
  /\ warned' = FALSE /\ threw' = FALSE /\ info' = "none" /\ fired' = <<>>
  /\ UNCHANGED <<sessionVars, syncVars, cs, hs, replicas, peer, editorVars, sinceChange,
                 historyVars>>
  /\ UNCHANGED notHost

\* sendMessage(), to its await: the warning if _sendFn is unset, the input box
\* otherwise
SendMessage ==
  /\ ~chatPrompt
  /\ input' = EventIn("sendMessage")
  /\ warned' = ~sendFnSet
  /\ chatPrompt' = sendFnSet
  /\ sent' = <<>>
  /\ threw' = FALSE /\ info' = "none" /\ fired' = <<>>
  /\ UNCHANGED <<sessionVars, syncVars, cs, hs, replicas, peer, editorVars, sinceChange,
                 historyVars>>
  /\ UNCHANGED <<otVars, saveVars, ignoredPatterns, replicaVars, whiteboard, extVars>>

\* The texts the input box resolves to: dismissed or blank, and a message
ChatTexts == {"", "hi"}

\* sendMessage() resumes after await showInputBox(...)
ChatEntered(text) ==
  /\ chatPrompt
  /\ chatPrompt' = FALSE
  /\ sent' = IF text = "" THEN <<>> ELSE <<ChatMsg>>
  /\ Quiet
  /\ UNCHANGED <<sessionVars, syncVars, cs, hs, replicas, peer, editorVars, sinceChange,
                 historyVars>>
  /\ UNCHANGED <<otVars, saveVars, ignoredPatterns, replicaVars, whiteboard, extVars>>

ChatResume == \E text \in ChatTexts : ChatEntered(text)

\* The host as constructed, with at most the file a of the workspace open
InitSession ==
  /\ HostInit
  /\ textDocuments \subseteq {"a"}
  /\ OtIdle
  /\ SaveIdle
  /\ ignoredPatterns = <<>>

NextSession ==
  \/ Start
  \/ Stop
  \/ ClientConnected
  \/ HandshakeResume
  \/ OnClientDisconnected
  \/ OnBeaconError
  \/ SendMessage
  \/ ChatResume

SpecSession == InitSession /\ [][NextSession]_vars

\* C21: a beacon error event leaves the fields of the session, the sync
\* components, the pending handshakes and the peer as they are, sends nothing and
\* throws nothing; the transport runs after it as before.
C21_BeaconErrorNonFatal ==
  [][input'.type = "BeaconError"
       => /\ UNCHANGED <<sessionVars, syncVars, cs, hs, replicas, peer>>
          /\ serverRunning'
          /\ sent' = <<>>
          /\ ~threw']_vars

\* A beacon error has just been handled while a peer is connected
C21_Witness ==
  /\ input.type = "BeaconError"
  /\ peer /\ AllPresent /\ statusBar = "HostConnected"
  /\ serverRunning /\ broadcaster

HasChat(msgs) == \E i \in 1..Len(msgs) : msgs[i].type = "ChatMessage"

\* C26: sendMessage called while no peer is connected shows the warning and
\* opens no input box, and a ChatMessage is handed to the transport only while a
\* peer is connected.
C26_ChatOnlyWhilePeer ==
  /\ [][(input'.type = "sendMessage" /\ ~peer) => warned' /\ ~chatPrompt']_vars
  /\ [](HasChat(sent) => peer)

\* C24: a peer's disconnect reported after stop() has begun leaves the status,
\* the client's username and the sync components as they are, shows no message
\* and fires no event; and from stop() on the status is Disconnected.
C24_DisconnectAfterStopIsNoOp ==
  /\ [][(isStopping /\ peer /\ ~peer')
          => /\ UNCHANGED <<sessionVars, syncVars, cs, replicas>>
             /\ info' = "none"
             /\ fired' = <<>>
             /\ sent' = <<>>]_vars
  /\ [](isStopping => statusBar = "Disconnected")

\* The host was stopped while bob was connected, and the disconnect was
\* reported afterwards: the username it would have cleared is still there
C24_Witness ==
  /\ isStopping /\ ~peer
  /\ clientUsername = "bob"
  /\ statusBar = "Disconnected"
  /\ gen = 1 /\ AllAbsent

\* C25: a CursorUpdate is sent only through a CursorSync whose connection got
\* its Welcome, after the Welcome where one step sends both; and the handshake
\* handler's initial CursorUpdate goes out through a CursorSync only when the
\* handshake of that CursorSync's connection has opened and seeded its files.
C25_WelcomeBeforeCursor ==
  /\ [](\A i \in 1..Len(sent) :
          sent[i].type = "CursorUpdate"
            => /\ hs[sent[i].by].pc # "none"
               /\ \A j \in 1..Len(sent) : sent[j].type = "Welcome" => j < i)
  /\ [][\A i \in 1..Len(sent') :
          (hs' # hs /\ sent'[i].type = "CursorUpdate") => hs'[sent'[i].by].pc = "done"]_vars

\* The undisposed objects of each kind that the setupSync calls made
UndisposedCursorSyncs == {g \in Gens : cs[g].state = "active"}
UndisposedBridges == {g \in Gens : objs[g].sharedbBridge = "active"}
UndisposedDocumentSyncs == {g \in Gens : objs[g].documentSync = "active"}
UndisposedFileOpsSyncs == {g \in Gens : objs[g].fileOpsSync = "active"}

\* C27: at most one CursorSync, one bridge, one DocumentSync and one FileOpsSync
\* is undisposed at any time, and none once the session is stopped.
C27_OneSetOfComponents ==
  /\ Cardinality(UndisposedCursorSyncs) <= 1
  /\ Cardinality(UndisposedBridges) <= 1
  /\ Cardinality(UndisposedDocumentSyncs) <= 1
  /\ Cardinality(UndisposedFileOpsSyncs) <= 1
  /\ isStopping => /\ UndisposedCursorSyncs = {} /\ UndisposedBridges = {}
                   /\ UndisposedDocumentSyncs = {} /\ UndisposedFileOpsSyncs = {}

\* The workspace-relative paths of the file documents inside the workspace root
PathsInsideRoot ==
  {Slice(DocFsPath(d), Len(RootPath) + 1) :
     d \in {e \in Docs : /\ DocScheme(e) = "file"
                         /\ StartsWith(DocFsPath(e), RootPath \o <<"/">>)}}

\* C29: every filePath of an outbound CursorUpdate and every path of a Welcome's
\* openFiles is the workspace-relative path of a file document inside the
\* workspace root.
C29_OnlyPathsInsideRoot ==
  \A i \in 1..Len(sent) :
    /\ sent[i].type = "CursorUpdate" => sent[i].filePath \in PathsInsideRoot
    /\ sent[i].type = "Welcome" =>
         \A j \in 1..Len(sent[i].openFiles) : sent[i].openFiles[j] \in PathsInsideRoot

----------------------------------------------------------------------------
(* The file badge of the remote cursor *)

\* provideFileDecoration(uri): whether the CursorSync returns a badge for the URI
ProvideFileDecoration(c, uri) ==
  /\ c.remoteFileUri # NoPath
  /\ c.remoteCursors # NoInput
  /\ uri = c.remoteFileUri

\* The URIs a file-decoration change event names
FiredUris == {fired[i] : i \in 1..Len(fired)}

\* C30: when the remote cursor moves from a file A to a different file B, the
\* file-decoration change event fired while handling the update for B names both
\* A and B; and a badge is provided only for the file of the latest remote cursor.
C30_EventNamesLeftFile ==
  /\ [][\A g \in Gens :
          (/\ input'.type = "CursorUpdate"
           /\ cs[g].remoteFileUri # NoPath
           /\ cs'[g].remoteFileUri # NoPath
           /\ cs'[g].remoteFileUri # cs[g].remoteFileUri)
            => {cs[g].remoteFileUri, cs'[g].remoteFileUri} \subseteq FiredUris']_vars
  /\ [](\A g \in Gens : \A f \in {<<"a">>, <<"b">>} :
          ProvideFileDecoration(cs[g], ToAbsolutePath(f))
            => /\ cs[g].remoteCursors.type = "CursorUpdate"
               /\ ToAbsolutePath(f) = cs[g].remoteFileUri)

----------------------------------------------------------------------------
(* The message router while the sync components are absent *)

\* A message of the type with the payload fields the router's handlers read
TypedIn(type) == Inbound(type, "bob", "none", "none", <<"a">>, NoPath, 0)

\* The types onMessage has a case for, and two it has none for
RoutedTypes ==
  {"CursorUpdate", "FollowUpdate", "FileSaveRequest", "WhiteboardStroke",
   "WhiteboardClear", "ChatMessage"}

UnroutedTypes == {"FileRenamed", "Ping"}

RouterMsgs == {TypedIn(t) : t \in RoutedTypes \cup UnroutedTypes}

RouteMessage == \E msg \in RouterMsgs : OnMessage(msg)

NextRouter ==
  \/ Start
  \/ Stop
  \/ ClientConnected
  \/ HandshakeResume
  \/ OnClientDisconnected
  \/ RouteMessage
  \/ HostOpens
  \/ HostSaveSettles

SpecRouter == InitRemote /\ [][NextRouter]_vars

\* What a message can change: the session, the sync components, the handlers in
\* progress, the whiteboard, and the wire to the client
RouterState ==
  <<sessionVars, syncVars, cs, hs, replicas, peer, hostSaves, hostDiskWrites, toClient,
    fileSaved, uiVars>>

----------------------------------------------------------------------------
(* The commands of the extension *)

\* hostSession?.isActive
HostIsActive == hostSession # 0 /\ hostSessions[hostSession] = "running"

\* clientSession?.isActive
ClientIsActive == clientSession # 0 /\ clientSessions[clientSession] = "connected"

\* hostSession?.dispose(): stop() of the object the variable refers to
DisposeHost ==
  IF hostSession = 0 THEN hostSessions ELSE [hostSessions EXCEPT ![hostSession] = "stopped"]

\* clientSession?.dispose()
DisposeClient ==
  IF clientSession = 0 THEN clientSessions
  ELSE [clientSessions EXCEPT ![clientSession] = "closed"]

\* What a command leaves alone: the session objects' insides are not looked into
CommandFrame ==
  /\ sent' = <<>> /\ threw' = FALSE /\ info' = "none" /\ fired' = <<>>
  /\ UNCHANGED <<sessionVars, syncVars, cs, hs, replicas, peer, editorVars, sinceChange,
                 historyVars>>
  /\ UNCHANGED <<otVars, saveVars, ignoredPatterns, replicaVars, uiVars>>

\* collab.startSession up to its await
StartSession ==
  /\ input' = EventIn("startSession")
  /\ IF HostIsActive \/ ClientIsActive \/ ~wsOpen
       THEN /\ warned' = TRUE
            /\ UNCHANGED extVars
       ELSE \E o \in Sessions :
              /\ hostSessions[o] = "none"
              /\ \A q \in Sessions : q < o => hostSessions[q] # "none"
              /\ hostSession' = o
              /\ hostSessions' = [hostSessions EXCEPT ![o] = "idle"]
              /\ starting' = starting \cup {o}
              /\ warned' = FALSE
              /\ UNCHANGED <<clientSession, clientSessions, connecting, prompts>>
  /\ CommandFrame

\* collab.startSession resumes after await hostSession.start(): the server of
\* the object runs, or the call rejected and the catch block disposes what the
\* variable refers to
StartSettles(o, ok) ==
  /\ o \in starting
  /\ starting' = starting \ {o}
  /\ input' = EventIn("startSettles")
  /\ IF ok
       THEN /\ hostSessions' = [hostSessions EXCEPT
                                  ![o] = IF @ = "idle" THEN "running" ELSE @]
            /\ warned' = FALSE
            /\ UNCHANGED hostSession
       ELSE /\ hostSessions' = DisposeHost
            /\ hostSession' = 0
            /\ warned' = TRUE
  /\ UNCHANGED <<clientSession, clientSessions, connecting, prompts>>
  /\ CommandFrame

\* collab.stopSession
StopSession ==
  /\ input' = EventIn("stopSession")
  /\ IF ~HostIsActive
       THEN /\ warned' = TRUE
            /\ UNCHANGED extVars
       ELSE /\ hostSessions' = DisposeHost
            /\ hostSession' = 0
            /\ warned' = FALSE
            /\ UNCHANGED <<clientSession, clientSessions, starting, connecting, prompts>>
  /\ CommandFrame

\* collab.joinSession up to its await of the address prompt
JoinSession ==
  /\ input' = EventIn("joinSession")
  /\ IF ClientIsActive \/ HostIsActive \/ ~wsOpen
       THEN /\ warned' = TRUE
            /\ UNCHANGED extVars
       ELSE /\ prompts < MaxPrompts
            /\ prompts' = prompts + 1
            /\ warned' = FALSE
            /\ UNCHANGED <<hostSession, clientSession, hostSessions, clientSessions,
                           starting, connecting>>
  /\ CommandFrame

\* collab.joinSession resumes after the address prompt: cancelled, or a
\* ClientSession is made and connect(address) awaited
AddressPromptSettles(entered) ==
  /\ prompts > 0
  /\ prompts' = prompts - 1
  /\ input' = EventIn("addressPrompt")
  /\ warned' = FALSE
  /\ IF ~entered
       THEN UNCHANGED <<clientSession, clientSessions, connecting>>
       ELSE \E o \in Sessions :
              /\ clientSessions[o] = "none"
              /\ \A q \in Sessions : q < o => clientSessions[q] # "none"
              /\ clientSession' = o
              /\ clientSessions' = [clientSessions EXCEPT ![o] = "idle"]
              /\ connecting' = connecting \cup {o}
  /\ UNCHANGED <<hostSession, hostSessions, starting>>
  /\ CommandFrame

\* collab.joinSession resumes after await clientSession.connect(address)
ConnectSettles(o, ok) ==
  /\ o \in connecting
  /\ connecting' = connecting \ {o}
  /\ input' = EventIn("connectSettles")
  /\ IF ok
       THEN /\ clientSessions' = [clientSessions EXCEPT
                                    ![o] = IF @ = "idle" THEN "connected" ELSE @]
            /\ warned' = FALSE
            /\ UNCHANGED clientSession
       ELSE /\ clientSessions' = DisposeClient
            /\ clientSession' = 0
            /\ warned' = TRUE
  /\ UNCHANGED <<hostSession, hostSessions, starting, prompts>>
  /\ CommandFrame

\* collab.leaveSession
LeaveSession ==
  /\ input' = EventIn("leaveSession")
  /\ IF ~ClientIsActive
       THEN /\ warned' = TRUE
            /\ UNCHANGED extVars
       ELSE /\ clientSessions' = DisposeClient
            /\ clientSession' = 0
            /\ warned' = FALSE
            /\ UNCHANGED <<hostSession, hostSessions, starting, connecting, prompts>>
  /\ CommandFrame

StartResume == \E o \in Sessions, ok \in BOOLEAN : StartSettles(o, ok)

AddressPromptResume == \E entered \in BOOLEAN : AddressPromptSettles(entered)

ConnectResume == \E o \in Sessions, ok \in BOOLEAN : ConnectSettles(o, ok)

\* The extension as activated, in an editor with or without a workspace folder
\* and no document open
InitExt ==
  /\ HostInit
  /\ textDocuments = {}
  /\ OtIdle
  /\ SaveIdle
  /\ ignoredPatterns = <<>>

NextExt ==
  \/ StartSession
  \/ StartResume
  \/ StopSession
  \/ JoinSession
  \/ AddressPromptResume
  \/ ConnectResume
  \/ LeaveSession

SpecExt == InitExt /\ [][NextExt]_vars

\* C23: at every moment at most one of the host session and the client session
\* is active, whatever the order of the start, join, stop and leave commands and
\* of the settling of what they await.
C23_OneSessionActive == ~(HostIsActive /\ ClientIsActive)

----------------------------------------------------------------------------
(* Remote cursors and the local copy of their file *)

\* Well-formed CursorUpdates: a file of the workspace and one cursor, on the
\* first line or on a later one
CursorMsgs == {CursorUpdateIn(f, c) : f \in {<<"a">>, <<"b">>}, c \in Sels}

ReceiveCursor == \E msg \in CursorMsgs : OnMessage(msg)

NextCursor ==
  \/ Start
  \/ Stop
  \/ ClientConnected
  \/ HandshakeResume
  \/ OnClientDisconnected
  \/ ChangeActiveEditor
  \/ ReceiveCursor

SpecCursor == InitRemote /\ [][NextCursor]_vars

\* C31: handling a well-formed CursorUpdate does not throw, whatever the local
\* copy of the file looks like: the payload becomes the stored remote cursor
\* state and the file-decoration event for its file is fired.
C31_WellFormedCursorNeverThrows ==
  [][(input'.type = "CursorUpdate" /\ ~Malformed(input') /\ cursorSync # 0)
       => /\ ~threw'
          /\ cs'[cursorSync].remoteCursors = input'
          /\ ToAbsolutePath(input'.filePath) \in FiredUris']_vars

----------------------------------------------------------------------------
(* Failed starts and joins *)

\* C32: when start() of a HostSession rejects, that object is disposed, the
\* variable hostSession is null and no host session is active; likewise for
\* connect() of a ClientSession; and stopSession or leaveSession with no active
\* session of its kind warns and changes nothing.
C32_FailedStartLeavesNoSession ==
  /\ [][\A o \in Sessions :
          StartSettles(o, FALSE)
            => hostSessions'[o] = "stopped" /\ hostSession' = 0 /\ ~HostIsActive']_vars
  /\ [][\A o \in Sessions :
          ConnectSettles(o, FALSE)
            => clientSessions'[o] = "closed" /\ clientSession' = 0 /\ ~ClientIsActive']_vars
  /\ [][(StopSession /\ ~HostIsActive) => warned' /\ UNCHANGED extVars]_vars
  /\ [][(LeaveSession /\ ~ClientIsActive) => warned' /\ UNCHANGED extVars]_vars

====
